---- MODULE Spec2Model ----
(***************************************************************************)
(* Model of pyActigraphy/analysis/flm.py: class FLM (functional linear     *)
(* modelling of a daily activity profile).                                 *)
(*                                                                         *)
(* The numerical primitives the class calls (statsmodels OLS, scipy        *)
(* splrep/splev, spm1d smooth, raw.average_daily_activity) are external;   *)
(* their results are modelled as symbolic terms over their arguments,      *)
(* together with the argument checks that make them raise.                 *)
(* A Python value that may be None is modelled as a sequence: <<>> is      *)
(* None and <<v>> is the value v.                                          *)
(***************************************************************************)
EXTENDS Integers, Sequences, FiniteSets, TLC

\* ------------------------------------------------------------- bounds
\* longest daily-average series (number of samples in one cycle)
MaxT == 4
\* largest max_order passed to the constructor
MaxOrder == 1
\* largest resampling ratio r passed to evaluate
MaxR == 2

\* ------------------------------------------------------------- values
None == <<>>
Some(v) == <<v>>
IsNone(o) == o = <<>>
Val(o) == o[1]

\* flm.py:22
bases == {"fourier", "spline", "ssa", "wavelet"}
\* what a caller may pass as `basis`
BasisInputs == bases \cup {"pca"}
\* what a caller may pass as `max_order`
OrderInputs == {None} \cup {Some(k) : k \in 0..MaxOrder}
\* flm.py:97: spline degree used when max_order is None
DefaultSplineDegree == 3

\* records of a reader: a display name and the length of the daily average
\* of the record at the model's sampling frequency
Names == {"a", "b"}
Raws == [display_name : Names, T : 1..MaxT]

\* raw.average_daily_activity(binarize, freq): the series, as a term.
\* binarize and freq are handed through to the record and only select which
\* series it returns; the term stands for the series of that call.
average_daily_activity(raw) == [name |-> raw.display_name, size |-> raw.T]

\* readers a caller may work on: the list reader.readers, each record
\* once (a display name identifies a record)
Readers ==
    {rs \in UNION {[1..n -> Raws] : n \in 0..Cardinality(Names)} :
        \A i, j \in 1..Len(rs) :
            i # j => rs[i].display_name # rs[j].display_name}

\* smoothing methods a caller may pass: the two rule names, an unknown
\* name, and a numeric scalar
Methods == {[str |-> TRUE, s |-> "scotts", x |-> 0],
            [str |-> TRUE, s |-> "silverman", x |-> 0],
            [str |-> TRUE, s |-> "bogus", x |-> 0],
            [str |-> FALSE, s |-> "", x |-> 5]}

\* ------------------------------------------------------------- state
VARIABLES
    reader,           \* the records at hand: reader.readers
    ctor,             \* outcome of FLM.__init__: "ok" or the exception
    basis,            \* self.__basis
    max_order,        \* self.__max_order
    nsamples,         \* self.__nsamples
    basis_functions,  \* self.__basis_functions
    beta,             \* self.__beta
    last,             \* the last call that ended: operation, outcome, result
    fit_returned,     \* history: some fit on this model returned normally
    fit_raised,       \* history: some fit on this model raised
    par               \* fit_reader with n_jobs > 1 in progress

vars == <<reader, ctor, basis, max_order, nsamples, basis_functions, beta, last,
          fit_returned, fit_raised, par>>

\* flm.py:29-34: the instance as __init__ leaves it
constructed(b, order) ==
    [basis |-> b, max_order |-> order, nsamples |-> None,
     basis_functions |-> None, beta |-> None]

\* the instance, as the methods see it
Self == [basis |-> basis, max_order |-> max_order, nsamples |-> nsamples,
         basis_functions |-> basis_functions, beta |-> beta]

\* ------------------------------------------------- numerical primitives
\* flm.py:38-47: the list phi for cycle length T; raises when it cannot
\* be built
FourierPhi(order, T) ==
    [i \in 1..(2 * order + 1) |->
        IF i = 1 THEN [fn |-> "cos", n |-> 0, size |-> T]
        ELSE IF i % 2 = 0 THEN [fn |-> "cos", n |-> i \div 2, size |-> T]
        ELSE [fn |-> "sin", n |-> i \div 2, size |-> T]]

create_basis_functions(s, T) ==
    IF s.basis = "fourier"
    THEN IF IsNone(T) THEN [err |-> "TypeError", phi |-> <<>>]
         ELSE IF Val(T) = 0 THEN [err |-> "ZeroDivisionError", phi |-> <<>>]
         ELSE IF IsNone(s.max_order) THEN [err |-> "TypeError", phi |-> <<>>]
         ELSE [err |-> "ok", phi |-> FourierPhi(Val(s.max_order), Val(T))]
    ELSE [err |-> "ok", phi |-> <<>>]

\* flm.py:80, 131: np.stack(phi, axis=1): the design matrix, as a term
Stack(phi) ==
    IF Len(phi) = 0 THEN [err |-> "ValueError", rows |-> 0, phi |-> phi]
    ELSE [err |-> "ok", rows |-> phi[1].size, phi |-> phi]

\* flm.py:82-83: sm.OLS(y, X).fit().params; OLS refuses endog and exog of
\* different sizes
OLS(y, X) ==
    IF y.size # X.rows THEN [err |-> "ValueError", params |-> None]
    ELSE [err |-> "ok",
          params |-> Some([kind |-> "ols", y |-> y, x |-> X.phi, t |-> 0, k |-> 0])]

\* flm.py:96-103: list(splrep(linspace(0, T, T), y, k)); splrep needs
\* len(t) = len(y), 1 <= k <= 5 and more points than the degree
Splrep(T, y, k) ==
    IF T # y.size \/ k < 1 \/ k > 5 \/ T <= k
    THEN [err |-> "TypeError", tck |-> None]
    ELSE [err |-> "ok",
          tck |-> Some([kind |-> "tck", y |-> y, x |-> <<>>, t |-> T, k |-> k])]

\* ------------------------------------------------------------- FLM.fit
\* One call of fit is a task: its position in the code, its arguments and
\* its locals.  The positions are the places where fit reads or writes the
\* instance, so that calls running in threads can be interleaved.
NewTask(raw) ==
    [pc |-> "new", raw |-> raw, T |-> 0, X |-> <<>>, err |-> "ok"]

Running(t) == t.pc \notin {"new", "done", "err"}
Raise(t, e) == [t EXCEPT !.pc = "err", !.err = e]

\* one step of fit(raw) on the instance s
FitStep(s, t) ==
    LET y == average_daily_activity(t.raw) IN
    CASE t.pc = "l71" ->
           \* flm.py:71-75, then the branch on the basis (78, 91)
           [self |-> [s EXCEPT !.nsamples = Some(y.size)],
            task |-> [t EXCEPT !.pc = IF s.basis = "fourier" THEN "l305"
                                      ELSE IF s.basis = "spline" THEN "l95"
                                      ELSE "done"]]
      [] t.pc = "l305" ->
           \* flm.py:305: the basis_functions property tests the cache
           [self |-> s,
            task |-> [t EXCEPT !.pc = IF IsNone(s.basis_functions)
                                      THEN "l310" ELSE "l311"]]
      [] t.pc = "l310" ->
           \* flm.py:310 and 36-49: build the basis for the current nsamples
           LET c == create_basis_functions(s, s.nsamples) IN
           IF c.err # "ok" THEN [self |-> s, task |-> Raise(t, c.err)]
           ELSE [self |-> [s EXCEPT !.basis_functions = Some(c.phi)],
                 task |-> [t EXCEPT !.pc = "l311"]]
      [] t.pc = "l311" ->
           \* flm.py:311: the property returns the cached list
           [self |-> s,
            task |-> [t EXCEPT !.pc = "l80", !.X = Val(s.basis_functions)]]
      [] t.pc = "l80" ->
           \* flm.py:80-88
           LET X == Stack(t.X) IN
           IF X.err # "ok" THEN [self |-> s, task |-> Raise(t, X.err)]
           ELSE LET res == OLS(y, X) IN
                IF res.err # "ok" THEN [self |-> s, task |-> Raise(t, res.err)]
                ELSE [self |-> [s EXCEPT !.beta = res.params],
                      task |-> [t EXCEPT !.pc = "done"]]
      [] t.pc = "l95" ->
           \* flm.py:95: T = self.nsamples
           [self |-> s, task |-> [t EXCEPT !.pc = "l103", !.T = Val(s.nsamples)]]
      [] t.pc = "l103" ->
           \* flm.py:96-103
           LET k == IF IsNone(s.max_order) THEN DefaultSplineDegree
                    ELSE Val(s.max_order)
               res == Splrep(t.T, y, k) IN
           IF res.err # "ok" THEN [self |-> s, task |-> Raise(t, res.err)]
           ELSE [self |-> [s EXCEPT !.beta = res.tck],
                 task |-> [t EXCEPT !.pc = "done"]]
      [] OTHER -> [self |-> s, task |-> t]

\* fit run from its first line to its return or its exception, with no
\* other call in between
RECURSIVE RunFit(_, _)
RunFit(s, t) ==
    IF t.pc \in {"done", "err"} THEN [self |-> s, task |-> t]
    ELSE LET n == FitStep(s, t) IN RunFit(n.self, n.task)

\* mutant of fit: coefficients already present are not replaced
fit_keeps_first(s, raw) ==
    LET f == RunFit(s, [NewTask(raw) EXCEPT !.pc = "l71"]) IN
    IF IsNone(s.beta) THEN f
    ELSE [self |-> [f.self EXCEPT !.beta = s.beta], task |-> f.task]

fit(s, raw) == RunFit(s, [NewTask(raw) EXCEPT !.pc = "l71"])

\* -------------------------------------------------------- FLM.evaluate
\* flm.py:105: default of r
DefaultR == 10
RInputs == (-1)..MaxR

\* flm.py:302-311: the basis_functions property, read outside fit
basis_functions_get(s) ==
    IF IsNone(s.basis_functions)
    THEN LET c == create_basis_functions(s, s.nsamples) IN
         IF c.err # "ok" THEN [self |-> s, err |-> c.err, phi |-> <<>>]
         ELSE [self |-> [s EXCEPT !.basis_functions = Some(c.phi)],
               err |-> "ok", phi |-> c.phi]
    ELSE [self |-> s, err |-> "ok", phi |-> Val(s.basis_functions)]

\* mutant of not_fitted: the test looks at nsamples instead of beta
not_fitted_by_nsamples(s) == IsNone(s.nsamples)

\* flm.py:123: self.beta is None
not_fitted(s) == IsNone(s.beta)

\* mutant of linspace_size: the ratio r is left out
linspace_size_without_r(T, r) == T

\* flm.py:139: the number of points of np.linspace(0, T, r*T)
linspace_size(T, r) == r * T

\* flm.py:123-141; `at` is the line that raises
evaluate(s, r) ==
    IF not_fitted(s)
    THEN [self |-> s, err |-> "ValueError", at |-> "l124", result |-> None]
    ELSE IF s.basis = "fourier"
    THEN LET b == basis_functions_get(s) IN
         IF b.err # "ok"
         THEN [self |-> b.self, err |-> b.err, at |-> "l131", result |-> None]
         ELSE LET X == Stack(b.phi) IN
              IF X.err # "ok"
              THEN [self |-> b.self, err |-> X.err, at |-> "l131",
                    result |-> None]
              ELSE [self |-> b.self, err |-> "ok", at |-> "",
                    result |-> Some([kind |-> "dot", size |-> X.rows,
                                     from |-> s.beta])]
    ELSE IF s.basis = "spline"
    THEN LET T == Val(s.nsamples) IN
         \* np.linspace refuses a negative number of points; dtype=np.float
         \* is the float it was an alias of in the numpy the code targets
         IF linspace_size(T, r) < 0
         THEN [self |-> s, err |-> "ValueError", at |-> "l139", result |-> None]
         ELSE [self |-> s, err |-> "ok", at |-> "",
               result |-> Some([kind |-> "splev", size |-> linspace_size(T, r),
                                from |-> s.beta])]
    ELSE [self |-> s, err |-> "ok", at |-> "", result |-> None]

\* a call self.evaluate(*args): evaluate takes one argument besides self
CallEvaluate(s, nargs, r) ==
    IF nargs > 1
    THEN [self |-> s, err |-> "TypeError", at |-> "call", result |-> None]
    ELSE evaluate(s, IF nargs = 0 THEN DefaultR ELSE r)

\* ---------------------------------------------------------- FLM.smooth
\* flm.py:9-14: the bandwidth factors, as terms
scotts_factor(n, d) == [rule |-> "scotts", n |-> n, d |-> d]
silverman_factor(n, d) == [rule |-> "silverman", n |-> n, d |-> d]

\* mutant of smooth: the factors take the size from the last fit
smooth_uses_nsamples(s, raw, method) ==
    LET daily_avg == average_daily_activity(raw)
        n == IF IsNone(s.nsamples) THEN daily_avg.size ELSE Val(s.nsamples)
        data_std == [std |-> daily_avg]
        bound == (method.str /\ method.s \in {"scotts", "silverman"}) \/ ~method.str
        fwhm == IF method.str /\ method.s = "scotts"
                THEN [factor |-> scotts_factor(n, 1), std |-> Some(data_std), x |-> 0]
                ELSE IF method.str /\ method.s = "silverman"
                THEN [factor |-> silverman_factor(n, 1), std |-> Some(data_std), x |-> 0]
                ELSE [factor |-> [rule |-> "scalar", n |-> 0, d |-> 0], std |-> None, x |-> method.x]
    IN  IF ~bound
        \* flm.py:278-281: fwhm is read without having been assigned
        THEN [self |-> s, err |-> "UnboundLocalError", at |-> "l278", result |-> None]
        ELSE [self |-> s, err |-> "ok", at |-> "",
              result |-> Some([kind |-> "smooth", size |-> daily_avg.size,
                               of |-> daily_avg, fwhm |-> fwhm])]

\* flm.py:259-281
smooth(s, raw, method) ==
    LET daily_avg == average_daily_activity(raw)
        data_std == [std |-> daily_avg]
        bound == (method.str /\ method.s \in {"scotts", "silverman"}) \/ ~method.str
        fwhm == IF method.str /\ method.s = "scotts"
                THEN [factor |-> scotts_factor(daily_avg.size, 1), std |-> Some(data_std), x |-> 0]
                ELSE IF method.str /\ method.s = "silverman"
                THEN [factor |-> silverman_factor(daily_avg.size, 1), std |-> Some(data_std), x |-> 0]
                ELSE [factor |-> [rule |-> "scalar", n |-> 0, d |-> 0], std |-> None, x |-> method.x]
    IN  IF ~bound
        \* flm.py:278-281: fwhm is read without having been assigned
        THEN [self |-> s, err |-> "UnboundLocalError", at |-> "l278", result |-> None]
        ELSE [self |-> s, err |-> "ok", at |-> "",
              result |-> Some([kind |-> "smooth", size |-> daily_avg.size,
                               of |-> daily_avg, fwhm |-> fwhm])]

\* ------------------------------------------------------ FLM.fit_reader
\* n_jobs other than 1
ParJobs == {2}
\* the `prefer` hint of joblib.Parallel; without a hint joblib runs the
\* tasks in worker processes
Prefers == {"None", "threads"}

\* flm.py:174-176: n_jobs = 1, the records in the reader's order; an
\* exception of fit ends the loop
RECURSIVE fit_loop(_, _, _)
fit_loop(s, readers, i) ==
    IF i > Len(readers)
    THEN [self |-> s, err |-> "ok", returned |-> Len(readers)]
    ELSE LET f == fit(s, readers[i]) IN
         IF f.task.pc = "err"
         THEN [self |-> f.self, err |-> f.task.err, returned |-> i - 1]
         ELSE fit_loop(f.self, readers, i + 1)

\* ------------------------------------------------- FLM.evaluate_reader
\* dict(pairs): a later pair replaces an earlier one with the same key
DictOf(pairs) ==
    [k \in {pairs[i][1] : i \in 1..Len(pairs)} |->
        LET i == CHOOSE i \in 1..Len(pairs) :
                    /\ pairs[i][1] = k
                    /\ \A j \in (i + 1)..Len(pairs) : pairs[j][1] # k
        IN pairs[i][2]]

\* flm.py:221-235: one call self.evaluate(raw, r) per record, with two
\* positional arguments, in the loop (n_jobs = 1) or in the tasks
RECURSIVE evaluate_loop(_, _, _, _, _)
evaluate_loop(s, readers, i, r, pairs) ==
    IF i > Len(readers)
    THEN [self |-> s, err |-> "ok", at |-> "", result |-> Some(DictOf(pairs))]
    ELSE LET e == CallEvaluate(s, 2, r) IN
         IF e.err # "ok"
         THEN [self |-> e.self, err |-> e.err, at |-> e.at, result |-> None]
         ELSE evaluate_loop(e.self, readers, i + 1, r,
                            Append(pairs, <<readers[i].display_name, e.result>>))

evaluate_reader(s, readers, r, n_jobs) == evaluate_loop(s, readers, 1, r, <<>>)

\* ------------------------------------------------------------- actions
NoPar == [active |-> FALSE, threads |-> FALSE, n_jobs |-> 1, tasks |-> <<>>]
NoArgs == [none |-> TRUE]

TypeOK ==
    /\ reader \in Readers
    /\ ctor \in {"ok", "ValueError"}
    /\ basis \in BasisInputs
    /\ max_order \in OrderInputs
    /\ nsamples \in {None} \cup {Some(n) : n \in 1..MaxT}
    /\ fit_returned \in BOOLEAN
    /\ fit_raised \in BOOLEAN
    /\ par.active \in BOOLEAN

\* flm.py:20-34
Init ==
    /\ reader \in Readers
    /\ basis \in BasisInputs
    /\ max_order \in OrderInputs
    /\ ctor = IF basis \in bases THEN "ok" ELSE "ValueError"
    /\ nsamples = constructed(basis, max_order).nsamples
    /\ basis_functions = constructed(basis, max_order).basis_functions
    /\ beta = constructed(basis, max_order).beta
    /\ last = [op |-> "init", outcome |-> ctor, at |-> "", result |-> None,
               args |-> NoArgs]
    /\ fit_returned = FALSE
    /\ fit_raised = FALSE
    /\ par = NoPar

Idle == ctor = "ok" /\ ~par.active

Store(s) ==
    /\ nsamples' = s.nsamples
    /\ basis_functions' = s.basis_functions
    /\ beta' = s.beta
    /\ UNCHANGED <<reader, ctor, basis, max_order>>

\* a call of fit(raw) on a record of the reader
Fit ==
    \E i \in 1..Len(reader) :
        LET raw == reader[i]
            f == fit(Self, raw) IN
        /\ Idle
        /\ Store(f.self)
        /\ last' = [op |-> "fit", outcome |-> f.task.err, at |-> "",
                    result |-> None,
                    args |-> [raw |-> raw]]
        /\ fit_returned' = (fit_returned \/ f.task.pc = "done")
        /\ fit_raised' = (fit_raised \/ f.task.pc = "err")
        /\ UNCHANGED par

\* a call of evaluate() or evaluate(r)
Evaluate ==
    \E nargs \in {0, 1}, r \in RInputs :
        LET e == CallEvaluate(Self, nargs, r) IN
        /\ Idle
        /\ nargs = 0 => r = 0
        /\ Store(e.self)
        /\ last' = [op |-> "evaluate", outcome |-> e.err, at |-> e.at,
                    result |-> e.result,
                    args |-> [r |-> IF nargs = 0 THEN DefaultR ELSE r]]
        /\ UNCHANGED <<fit_returned, fit_raised, par>>

\* a call of smooth(raw, method) on a record of the reader
Smooth ==
    \E i \in 1..Len(reader), method \in Methods :
        LET raw == reader[i]
            m == smooth(Self, raw, method) IN
        /\ Idle
        /\ Store(m.self)
        /\ last' = [op |-> "smooth", outcome |-> m.err, at |-> m.at,
                    result |-> m.result,
                    args |-> [raw |-> raw, method |-> method]]
        /\ UNCHANGED <<fit_returned, fit_raised, par>>

\* a call of fit_reader(reader, n_jobs=1)
FitReaderSeq ==
        LET f == fit_loop(Self, reader, 1) IN
        /\ Idle
        /\ Store(f.self)
        /\ last' = [op |-> "fit_reader", outcome |-> f.err, at |-> "",
                    result |-> None,
                    args |-> [n_jobs |-> 1, prefer |-> "None"]]
        /\ fit_returned' = (fit_returned \/ f.returned > 0)
        /\ fit_raised' = (fit_raised \/ f.err # "ok")
        /\ UNCHANGED par

\* a call of evaluate_reader(reader, r, n_jobs)
EvaluateReader ==
    \E r \in RInputs, n_jobs \in {1} \cup ParJobs :
        LET e == evaluate_reader(Self, reader, r, n_jobs) IN
        /\ Idle
        /\ Store(e.self)
        /\ last' = [op |-> "evaluate_reader", outcome |-> e.err, at |-> e.at,
                    result |-> e.result,
                    args |-> [r |-> r, n_jobs |-> n_jobs]]
        /\ UNCHANGED <<fit_returned, fit_raised, par>>

\* fit_reader(reader, n_jobs > 1, prefer): flm.py:177-184.  The
\* caller waits in Parallel(...) while the tasks run self.fit(raw, ...).
FitReaderPar ==
    \E n_jobs \in ParJobs, prefer \in Prefers :
        /\ Idle
        /\ par' = [active |-> TRUE, threads |-> (prefer = "threads"),
                   n_jobs |-> n_jobs,
                   tasks |-> [i \in 1..Len(reader) |->
                                 NewTask(reader[i])]]
        /\ last' = [op |-> "fit_reader", outcome |-> "running", at |-> "",
                    result |-> None,
                    args |-> [n_jobs |-> n_jobs, prefer |-> prefer]]
        /\ UNCHANGED <<reader, ctor, basis, max_order, nsamples, basis_functions,
                       beta, fit_returned, fit_raised>>

NumRunning == Cardinality({i \in 1..Len(par.tasks) : Running(par.tasks[i])})
SomeRaised == \E i \in 1..Len(par.tasks) : par.tasks[i].pc = "err"

\* joblib hands the next task to a free worker, in the reader's order, and
\* hands out no more once a task has raised
ParDispatch ==
    \E i \in 1..Len(par.tasks) :
        /\ par.active
        /\ par.tasks[i].pc = "new"
        /\ \A j \in 1..(i - 1) : par.tasks[j].pc # "new"
        /\ NumRunning < par.n_jobs
        /\ ~SomeRaised
        /\ par' = [par EXCEPT !.tasks[i].pc = "l71"]
        /\ UNCHANGED <<reader, ctor, basis, max_order, nsamples, basis_functions,
                       beta, last, fit_returned, fit_raised>>

\* prefer = 'threads': the closure parallel_fitting holds the instance
\* itself, and a thread runs the next step of its fit on it
ParThreadStep ==
    \E i \in 1..Len(par.tasks) :
        LET n == FitStep(Self, par.tasks[i]) IN
        /\ par.active
        /\ par.threads
        /\ Running(par.tasks[i])
        /\ Store(n.self)
        /\ par' = [par EXCEPT !.tasks[i] = n.task]
        /\ fit_returned' = (fit_returned \/ n.task.pc = "done")
        /\ fit_raised' = (fit_raised \/ n.task.pc = "err")
        /\ UNCHANGED last

\* worker processes: the closure is pickled with the instance, the fit runs
\* on the worker's copy and nothing is sent back but the return value None
ParProcessStep ==
    \E i \in 1..Len(par.tasks) :
        LET f == RunFit(Self, par.tasks[i]) IN
        /\ par.active
        /\ ~par.threads
        /\ Running(par.tasks[i])
        /\ par' = [par EXCEPT !.tasks[i] = f.task]
        /\ UNCHANGED <<reader, ctor, basis, max_order, nsamples, basis_functions,
                       beta, last, fit_returned, fit_raised>>

\* Parallel(...) returns when every task has returned, or raises the
\* exception of a task once the running tasks have ended
ParJoin ==
    \E outcome \in {"ok"} \cup {par.tasks[i].err : i \in 1..Len(par.tasks)} :
        /\ par.active
        /\ NumRunning = 0
        /\ IF SomeRaised THEN outcome # "ok"
           ELSE \A i \in 1..Len(par.tasks) : par.tasks[i].pc = "done"
        /\ last' = [last EXCEPT !.outcome = outcome]
        /\ par' = NoPar
        /\ UNCHANGED <<reader, ctor, basis, max_order, nsamples, basis_functions,
                       beta, fit_returned, fit_raised>>

Next ==
    \/ Fit
    \/ Evaluate
    \/ Smooth
    \/ FitReaderSeq
    \/ FitReaderPar
    \/ ParDispatch
    \/ ParThreadStep
    \/ ParProcessStep
    \/ ParJoin
    \/ EvaluateReader

Spec == Init /\ [][Next]_vars

\* -------------------------------------------------------------- claims
DisplayNames == {reader[i].display_name : i \in 1..Len(reader)}

\* C1: in every reachable state the coefficients beta are defined if and
\* only if some fit on the model has returned without raising.
C1_CoefficientsIffFitReturned ==
    ctor = "ok" => (~IsNone(beta) <=> fit_returned)

\* C2: a model with basis ssa or wavelet is constructed without error, and
\* every fit on it ends in an error.
C2_UnimplementedBasisFitRaises ==
    basis \in {"ssa", "wavelet"} =>
        /\ ctor = "ok"
        /\ last.op = "fit" => last.outcome # "ok"

\* C3: evaluate_reader on a fitted model and a non-empty reader of records
\* with distinct names returns a mapping with exactly one entry per record,
\* keyed by the display names, for n_jobs = 1 and for n_jobs > 1.
C3_EvaluateReaderOneEntryPerRecord ==
    (last.op = "evaluate_reader" /\ ~IsNone(beta) /\ Len(reader) > 0) =>
        /\ last.outcome = "ok"
        /\ ~IsNone(last.result)
        /\ DOMAIN Val(last.result) = DisplayNames

\* C4: for a Fourier model, between calls, cached basis functions have the
\* length of the model's current nsamples.
C4_BasisFunctionsMatchNSamples ==
    (ctor = "ok" /\ basis = "fourier" /\ ~par.active /\ ~IsNone(basis_functions)) =>
        /\ ~IsNone(nsamples)
        /\ \A i \in 1..Len(Val(basis_functions)) :
               Val(basis_functions)[i].size = Val(nsamples)

\* C5: when fit_reader with n_jobs > 1 has returned, nsamples and the
\* coefficients of the model come from the fit of one and the same record:
\* the fits of the tasks did not interleave on the instance.
C5_ParallelFitsDoNotMix ==
    (/\ last.op = "fit_reader"
     /\ last.args.n_jobs > 1
     /\ last.outcome = "ok"
     /\ ~IsNone(beta)
     /\ ~IsNone(nsamples)) =>
        \E i \in 1..Len(reader) :
            /\ Val(beta).y = average_daily_activity(reader[i])
            /\ Val(nsamples) = reader[i].T

\* C6: a call of evaluate on a model whose coefficients are undefined
\* raises the not-fitted error of line 124 and leaves nsamples, beta and
\* basis_functions as they were, for every basis and every r.
C6_EvaluateBeforeFitRaises ==
    [][(last'.op = "evaluate" /\ IsNone(beta)) =>
          /\ last'.outcome = "ValueError"
          /\ last'.at = "l124"
          /\ UNCHANGED <<nsamples, beta, basis_functions>>]_vars

\* evaluate has raised on a model that a fit has touched (nsamples is set)
\* without giving it coefficients
C6_Witness ==
    /\ last.op = "evaluate"
    /\ last.outcome = "ValueError"
    /\ last.at = "l124"
    /\ IsNone(beta)
    /\ ~IsNone(nsamples)

\* C7: smooth with a method that is neither 'scotts' nor 'silverman' nor a
\* number ends in an error raised where the method is selected, not where
\* the unresolved bandwidth is used.
C7_UnknownMethodRejectedAtSelection ==
    (/\ last.op = "smooth"
     /\ last.args.method.str
     /\ last.args.method.s \notin {"scotts", "silverman"}) =>
        /\ last.outcome \notin {"ok", "UnboundLocalError"}
        /\ last.at # "l278"

\* C8: on a model all of whose fits have returned, evaluate(r) returns
\* r * nsamples values for a spline model and nsamples values for a Fourier
\* model, whatever r is.
C8_EvaluateLength ==
    (last.op = "evaluate" /\ last.outcome = "ok" /\ ~fit_raised) =>
        /\ basis = "spline" =>
               Val(last.result).size = last.args.r * Val(nsamples)
        /\ basis = "fourier" => Val(last.result).size = Val(nsamples)

\* a Fourier model, fitted without a failure, evaluated with a ratio above 1
C8_Witness ==
    /\ last.op = "evaluate"
    /\ last.outcome = "ok"
    /\ ~fit_raised
    /\ basis = "fourier"
    /\ last.args.r > 1
    /\ Val(nsamples) > 1

\* C9: smooth does not depend on the fit state: it leaves nsamples, beta
\* and basis_functions unchanged, and its outcome and result are those it
\* has on a model that was never fit.
C9_SmoothIndependentOfFit ==
    [][last'.op = "smooth" =>
          /\ UNCHANGED <<nsamples, beta, basis_functions>>
          /\ LET m == smooth(constructed(basis, max_order), last'.args.raw,
                             last'.args.method)
             IN  last'.outcome = m.err /\ last'.result = m.result]_vars

\* smooth has returned a result on a model that was never fit
C9_Witness ==
    /\ last.op = "smooth"
    /\ last.outcome = "ok"
    /\ ~fit_returned
    /\ IsNone(nsamples)
    /\ IsNone(beta)

\* C10: when fit_reader with n_jobs = 1 has fitted every record, nsamples
\* and beta are those that fitting the last record of the reader alone, on
\* a model never fit before, produces.
C10_FitReaderSeqKeepsLastRecord ==
    (/\ last.op = "fit_reader"
     /\ last.args.n_jobs = 1
     /\ last.outcome = "ok"
     /\ Len(reader) > 0) =>
        LET alone == fit(constructed(basis, max_order), reader[Len(reader)]).self
        IN  nsamples = alone.nsamples /\ beta = alone.beta

\* two records of different cycle lengths have been fitted in turn
C10_Witness ==
    /\ last.op = "fit_reader"
    /\ last.args.n_jobs = 1
    /\ last.outcome = "ok"
    /\ Len(reader) = 2
    /\ reader[1].T # reader[2].T
    /\ ~IsNone(beta)

====
